---- MODULE Spec2Model ----
(***************************************************************************)
(* Vector-store adapters of phi.vectordb: LanceDb (embedded columnar       *)
(* engine, src/phi/vectordb/lancedb/lancedb.py) and singlestore            *)
(* (relational engine, src/phi/vectordb/singlestore/s2vectordb.py).        *)
(*                                                                         *)
(* One adapter instance is constructed (backend says of which class) and a *)
(* single caller thread calls its public methods one after the other.      *)
(* Every method is one action, except the relational insert/upsert, whose  *)
(* per-document loop is unfolded (one step per document) so that the       *)
(* commits inside one call can be observed.                                *)
(*                                                                         *)
(* Assumptions about the engines, which are not part of the repository:    *)
(*  - md5 is stood for by a small digest, which is collision free on the   *)
(*    texts of the model (DigestIsInjective says so);                      *)
(*  - a statement on a table that does not exist raises; closing a         *)
(*    session rolls back what it did not commit;                           *)
(*  - the catalog inspector (has_table, table_names) answers truthfully;  *)
(*  - the embedder is a function of the text: it returns a vector or       *)
(*    nothing (Embedding, QueryEmbeddings);                                *)
(*  - a LanceDb search that names no metric orders by the engine's         *)
(*    default, the L2 distance;                                            *)
(*  - where(False) selects no row; a BLOB column has no method             *)
(*    max_inner_product;                                                   *)
(*  - the base class VectorDb is not part of the sources read, so whether  *)
(*    self.index exists on a singlestore instance is left open             *)
(*    (IndexAttrs).                                                        *)
(***************************************************************************)
EXTENDS Bags, FiniteSets, Integers, Sequences, TLC

\* ---------------------------------------------------------------- bounds
MaxLen == 2     \* longest generated content, in characters (SpecHash)
MaxDocs == 2    \* longest documents list handed to insert / upsert
MaxRows == 3    \* most rows a table is let to grow to
MaxBatch == 2   \* largest explicit batch_size tried (1 and the defaults are tried too)
MaxResults == 3 \* most rows a query hands to the decoding loop (SpecDecode)
MaxBuilds == 2  \* index builds after which no further adapter is constructed (SpecLance)

\* ------------------------------------------------------------ characters
NUL == "\\x00"
FFFD == "\\ufffd"

\* A text is a sequence of pieces: NUL, U+FFFD, or a run of ASCII characters, whose
\* bytes are listed here.
Ascii ==
  "x" :> <<120>> @@ "?" :> <<63>> @@ "The" :> <<84, 104, 101>>
  @@ " quick brown fox" :>
       <<32, 113, 117, 105, 99, 107, 32, 98, 114, 111, 119, 110, 32, 102, 111, 120>>

\* str.encode() (UTF-8) of one piece.
Utf8(c) ==
  IF c = NUL THEN <<0>>
  ELSE IF c = FFFD THEN <<239, 191, 189>>
  ELSE Ascii[c]

RECURSIVE Encode(_)
\* str.encode(): the UTF-8 bytes of a text.
Encode(s) == IF s = <<>> THEN <<>> ELSE Utf8(Head(s)) \o Encode(Tail(s))

RECURSIVE Digest(_, _)
\* A digest of fixed size that every byte goes into.
Digest(bytes, h) ==
  IF bytes = <<>> THEN h
  ELSE Digest(Tail(bytes), (h * 257 + Head(bytes) + 1) % 1000003)

\* md5(bytes).hexdigest(): the text that spells the digest.
Md5Hex(bytes) == <<"md5", ToString(Digest(bytes, 0))>>

\* A cleaning that leaves the text as it is, and one that removes the NULs.
ReplaceKeepsNul(s) == s
ReplaceDropsNul(s) == SelectSeq(s, LAMBDA c : c # NUL)
\* content.replace("\\x00", "\\ufffd")
Replace(s) == [i \in 1..Len(s) |-> IF s[i] = NUL THEN FFFD ELSE s[i]]

\* ------------------------------------------------------------- documents
\* Document.id is a text, or None.
NoId == <<"<None>">>
K1 == <<"k", "1">>
K2 == <<"k", "2">>
FOX == <<"The", " quick brown fox">>
FOXNUL == <<"The", NUL, " quick brown fox">>
FOXFFFD == <<"The", FFFD, " quick brown fox">>

\* A text the Embedding Provider has no embedding for.
NOVEC == <<"?">>

\* Document.embedding when the provider returned an absent result (None).
NoVec == <<>>

\* embedder.get_embedding(text): the provider's answer for the texts of the model,
\* vectors of two dimensions.
Embedding(text) ==
  IF text = NOVEC THEN NoVec
  ELSE IF text = FOX THEN <<3, 0>>
  ELSE IF text = FOXNUL THEN <<4, 1>>
  ELSE <<1, 1>>

\* json.dumps(v): the JSON text that spells v.
JsonDumps(v) == [kind |-> "json", value |-> v]

\* A text that is not JSON (what is left of the text of v after damage).
Malformed(v) == [kind |-> "malformed", value |-> v]

\* A column that holds no text (NULL).
SqlNull(v) == [kind |-> "null", value |-> v]

\* json.loads(text) raises on a text that is not JSON.
JsonLoadsRaises(text) == text.kind = "malformed"

\* json.loads(text), when it returns.
JsonLoads(text) == text.value

\* The defaults of the constructors: Distance.cosine, query_type "vector".
Conf(distance, query_type, index) ==
  [distance |-> distance, query_type |-> query_type, index |-> index]

\* self.index is read by singlestore.search and set by no method of the class:
\* the read raises AttributeError ("unset") unless the base class, which is not
\* part of the sources, provides the attribute ("None").
IndexAttrs == {"unset", "None"}

\* The instances the specifications of the write path construct.
DefaultConfs(b) ==
  IF b = "singlestore" THEN {Conf("cosine", "vector", i) : i \in IndexAttrs}
  ELSE {Conf("cosine", "vector", "None")}

DocIds == {NoId, K1}
Document(id, content) == [id |-> id, content |-> content]
\* The documents the callers of the model write, and those they ask about.
Docs == {Document(NoId, FOX), Document(K1, FOX), Document(K1, FOXNUL)}
QueryDocs == [id : DocIds, content : {FOX, FOXNUL, FOXFFFD}]

SeqsUpTo(S, n) == UNION {[1..k -> S] : k \in 0..n}
DocLists == SeqsUpTo(Docs, MaxDocs)

VARIABLES
  backend,           \* the adapter class that was constructed
  conf,              \* what the instance was constructed with: distance, query_type,
                     \* and whether it has an attribute index (no __init__ sets one)
  lTable,            \* LanceDb: the table table_name of self.client
  fts_index_exists,  \* LanceDb.fts_index_exists
  ftsBuilds,         \* LanceDb: create_fts_index calls that built an index
  sTable,            \* singlestore: the table and its committed rows
  sess,              \* singlestore: the insert / upsert call under way, and its session
  ret,               \* the last call that returned or raised, with its result
  hin, hout          \* the inputs and the results of the specifications of one
                     \* computation (SpecHash: two documents and their identifiers;
                     \* SpecDecode: the rows of a query and what they decode to)

lvars == <<lTable, fts_index_exists, ftsBuilds>>
svars == <<sTable, sess>>
hvars == <<hin, hout>>
vars == <<backend, conf, lvars, svars, ret, hvars>>

None == "-"

\* What a call left behind: its name, "ok" or "raise", and the value returned
\* (n: the documents a write executed, or the queries a search sent to the backend).
Ret(op, out, val) ==
  [op |-> op, out |-> out, val |-> val, again |-> FALSE, n |-> 0, index |-> None]

\* What a lexical search that reached the backend left behind: whether it built
\* the index or found it built. The documents it found are not modelled; one
\* that raised hands over none.
RetS(op, out, index) ==
  [Ret(op, out, IF out = "raise" THEN <<>> ELSE None) EXCEPT !.index = index, !.n = 1]

\* What insert / upsert left behind: its documents, how many of them it executed,
\* and whether it repeated the call before it (same method, same documents, which
\* had returned).
RetW(op, out, documents, again, n) ==
  [op |-> op, out |-> out, val |-> documents, again |-> again, n |-> n, index |-> None]

\* The call before was op(documents) and returned.
Again(op, documents) == ret.op = op /\ ret.out = "ok" /\ ret.val = documents

\* -------------------------------------------------------------------- queries
\* limit: int = 5
DefaultLimit == 5
Limits == {1, DefaultLimit}

\* embedder.get_embedding(query) for the queries of the model: absent, or a vector.
QueryEmbeddings == {NoVec, <<1, 0>>}

\* A test that never finds the embedding absent.
QueryEmbeddingNeverNone(query_embedding) == FALSE
\* if query_embedding is None
QueryEmbeddingIsNone(query_embedding) == query_embedding = NoVec

RECURSIVE DotFrom(_, _, _)
DotFrom(a, b, i) == IF i > Len(a) THEN 0 ELSE a[i] * b[i] + DotFrom(a, b, i + 1)

\* dot_product(a, b), of vectors of one dimension.
Dot(a, b) == IF Len(a) # Len(b) THEN 0 ELSE DotFrom(a, b, 1)

\* The squared Euclidean distance of a and b, which orders as the L2 metric does.
L2sq(a, b) == Dot(a, a) - 2 * Dot(a, b) + Dot(b, b)

\* .limit(limit)
Limit(rows, limit) == SubSeq(rows, 1, IF limit < Len(rows) THEN limit ELSE Len(rows))

\* What a search left behind: its result, and the queries it sent to the backend.
RetQ(op, out, val, n) == [Ret(op, out, val) EXCEPT !.n = n]

\* ----------------------------------------------- decoding of query results
\* Document(content=..., embedding=...), as a search hands it to its caller.
Decoded(content, embedding) == [content |-> content, embedding |-> embedding]

RECURSIVE L_build_rows(_, _)
\* _build_search_results: the loop over results.iterrows(), inside the try; the
\* first row that raises ends it, and what was appended until then is returned.
L_build_rows(results, search_results) ==
  IF results = <<>> THEN search_results
  ELSE IF JsonLoadsRaises(Head(results).payload) THEN search_results
  ELSE L_build_rows(Tail(results),
                    Append(search_results,
                           Decoded(JsonLoads(Head(results).payload).content,
                                   Head(results).vector)))

\* _build_search_results(results)
L_build_search_results(results) == [out |-> "ok", val |-> L_build_rows(results, <<>>)]

\* json.loads(neighbor.column) if neighbor.column else ...: raises on a text that
\* is there and is not JSON.
S_column_raises(text) == text.kind # "null" /\ JsonLoadsRaises(text)

\* One turn of "for neighbor in neighbors" raises.
S_neighbor_raises(neighbor) ==
  \/ S_column_raises(neighbor.meta_data)
  \/ S_column_raises(neighbor.usage)
  \/ S_column_raises(neighbor.embedding)

RECURSIVE S_build_rows(_, _)
\* search: the loop that builds search_results; nothing catches what it raises.
S_build_rows(neighbors, search_results) ==
  IF neighbors = <<>> THEN [out |-> "ok", val |-> search_results]
  ELSE IF S_neighbor_raises(Head(neighbors)) THEN [out |-> "raise", val |-> <<>>]
  ELSE S_build_rows(Tail(neighbors),
                    Append(search_results,
                           Decoded(Head(neighbors).content,
                                   IF Head(neighbors).embedding.kind = "null" THEN <<>>
                                   ELSE JsonLoads(Head(neighbors).embedding))))

\* search: "Build search results"
S_build_search_results(neighbors) == S_build_rows(neighbors, <<>>)

\* select name, meta_data, content, json_array_unpack(embedding), usage: a row as
\* the query returns it. meta_data and usage hold json.dumps of what the document
\* carried, which the documents of the model leave empty.
SNeighbor(row) ==
  [content |-> row.content, meta_data |-> JsonDumps(<<>>), usage |-> JsonDumps(<<>>),
   embedding |-> JsonDumps(row.embedding)]

\* ------------------------------------------------------------------ LanceDb
\* doc_exists: the id it looks for.
L_doc_exists_id(document) == Md5Hex(Encode(Replace(document.content)))

\* An id computed from the content as it came, before cleaning.
L_insert_id_raw(document) == Md5Hex(Encode(document.content))
\* insert: the id it stores.
L_insert_id(document) == Md5Hex(Encode(Replace(document.content)))

\* insert: the record appended to data for one document.
LRecord(document) ==
  [id |-> L_insert_id(document),
   vector |-> Embedding(document.content),
   payload |-> JsonDumps([content |-> Replace(document.content)])]

\* The table is not among client.table_names(): never created, or dropped.
LNoTable == [exists |-> FALSE, rows |-> <<>>, fts |-> FALSE]

\* create_table(table_name, schema, mode="overwrite")
LNewTable == [exists |-> TRUE, rows |-> <<>>, fts |-> FALSE]

\* exists()
L_exists == lTable.exists

\* get_count()
L_get_count == IF L_exists THEN Len(lTable.rows) ELSE 0

\* doc_exists(document), on an existing table.
L_doc_exists(document) ==
  \E i \in 1..Len(lTable.rows) : lTable.rows[i].id = L_doc_exists_id(document)

\* A create that overwrites the table whether it exists or not.
LCreateAlways(emb) == IF emb = "absent" THEN lTable ELSE LNewTable
\* create(): the table afterwards.
LCreateTable(emb) ==
  IF L_exists THEN lTable
  ELSE IF emb = "absent" THEN lTable   \* len(None) raises in _init_table
  ELSE LNewTable

LCreate(emb) ==
  /\ backend = "lancedb"
  /\ lTable' = LCreateTable(emb)
  /\ ret' = Ret("create", IF ~L_exists /\ emb = "absent" THEN "raise" ELSE "ok", None)
  /\ UNCHANGED <<backend, conf, fts_index_exists, ftsBuilds, svars, hvars>>

\* A table creation that keeps the table that is there.
L_init_table_exist_ok(emb) == IF emb = "absent" \/ L_exists THEN lTable ELSE LNewTable
\* _init_table(): create_table(table_name, schema, mode="overwrite"), after
\* len(self.embedder.get_embedding("test")), which raises on an absent embedding.
L_init_table(emb) == IF emb = "absent" THEN lTable ELSE LNewTable

\* LanceDb(uri, table_name) is constructed once more, without a connection, on
\* the store the instance before it wrote to. The new instance takes the place
\* of the old one unless the constructor raises. (ret.n: the rows the table held.)
LInit(emb) ==
  /\ backend = "lancedb"
  /\ ftsBuilds < MaxBuilds
  /\ lTable' = L_init_table(emb)
  /\ fts_index_exists' = IF emb = "absent" THEN fts_index_exists ELSE FALSE
  /\ ret' = RetQ("__init__", IF emb = "absent" THEN "raise" ELSE "ok", None,
                 Len(lTable.rows))
  /\ UNCHANGED <<backend, conf, ftsBuilds, svars, hvars>>

LDocExists(document) ==
  /\ backend = "lancedb"
  /\ ret' = IF L_exists THEN Ret("doc_exists", "ok", L_doc_exists(document))
            ELSE Ret("doc_exists", "raise", None)
  /\ UNCHANGED <<backend, conf, lvars, svars, hvars>>

\* insert: data, one record per document, in input order.
LData(documents) == [i \in 1..Len(documents) |-> LRecord(documents[i])]

\* An add that skips the ids stored already.
LAddMerge(data) ==
  [lTable EXCEPT !.rows = @ \o SelectSeq(data, LAMBDA r : \A i \in 1..Len(@) : @[i].id # r.id)]
\* connection.add(data)
LAdd(data) == [lTable EXCEPT !.rows = @ \o data]

\* An insert that adds each record as soon as it is prepared: when the last
\* document raises, the records of those before it are in the table.
LInsertEach(op, documents, prep) ==
  /\ backend = "lancedb"
  /\ L_exists => Len(lTable.rows) + Len(documents) <= MaxRows
  /\ prep = "raise" => documents # <<>>
  /\ IF L_exists
     THEN /\ lTable' = LAdd(LData(IF prep = "ok" THEN documents
                                  ELSE SubSeq(documents, 1, Len(documents) - 1)))
          /\ ret' = RetW(op, prep, documents, Again(op, documents),
                         IF prep = "ok" THEN Len(documents) ELSE 0)
     ELSE /\ lTable' = lTable
          /\ ret' = RetW(op, "raise", documents, Again(op, documents), 0)
  /\ UNCHANGED <<backend, conf, fts_index_exists, ftsBuilds, svars, hvars>>

\* insert(documents): prep = "raise" when embedding or encoding a document raises,
\* or the engine rejects the data.
LInsertAs(op, documents, prep) ==
  /\ backend = "lancedb"
  /\ L_exists => Len(lTable.rows) + Len(documents) <= MaxRows
  /\ prep = "raise" => documents # <<>>
  /\ IF prep = "ok" /\ L_exists
     THEN /\ lTable' = LAdd(LData(documents))
          /\ ret' = RetW(op, "ok", documents, Again(op, documents), Len(documents))
     ELSE /\ lTable' = lTable
          /\ ret' = RetW(op, "raise", documents, Again(op, documents), 0)
  /\ UNCHANGED <<backend, conf, fts_index_exists, ftsBuilds, svars, hvars>>

LInsert(documents, prep) == LInsertAs("insert", documents, prep)

\* upsert(documents): self.insert(documents)
LUpsert(documents, prep) == LInsertAs("upsert", documents, prep)

LDelete ==
  /\ backend = "lancedb"
  /\ lTable' = LNoTable
  /\ ret' = Ret("delete", "ok", None)
  /\ UNCHANGED <<backend, conf, fts_index_exists, ftsBuilds, svars, hvars>>

LExists ==
  /\ backend = "lancedb"
  /\ ret' = Ret("exists", "ok", L_exists)
  /\ UNCHANGED <<backend, conf, lvars, svars, hvars>>

LGetCount ==
  /\ backend = "lancedb"
  /\ ret' = Ret("get_count", "ok", L_get_count)
  /\ UNCHANGED <<backend, conf, lvars, svars, hvars>>

\* An index step that builds the index on every call.
LEnsureIndexAlways(op) ==
  /\ IF L_exists
     THEN /\ lTable' = [lTable EXCEPT !.fts = TRUE]
          /\ fts_index_exists' = TRUE
          /\ ftsBuilds' = ftsBuilds + 1
          /\ ret' = RetS(op, "ok", "built")
     ELSE /\ UNCHANGED <<lTable, fts_index_exists, ftsBuilds>>
          /\ ret' = RetS(op, "raise", None)
\* if not self.fts_index_exists: create_fts_index(...); self.fts_index_exists = True
\* followed by the query, which needs the table and its index.
LEnsureIndex(op) ==
  IF ~fts_index_exists
  THEN IF L_exists
       THEN /\ lTable' = [lTable EXCEPT !.fts = TRUE]
            /\ fts_index_exists' = TRUE
            /\ ftsBuilds' = ftsBuilds + 1
            /\ ret' = RetS(op, "ok", "built")
       ELSE /\ UNCHANGED <<lTable, fts_index_exists, ftsBuilds>>
            /\ ret' = RetS(op, "raise", None)
  ELSE /\ UNCHANGED <<lTable, fts_index_exists, ftsBuilds>>
       /\ ret' = RetS(op, IF L_exists /\ lTable.fts THEN "ok" ELSE "raise", "found")

\* keyword_search, called as op (by its name, or through search).
LKeywordSearchAs(op) ==
  /\ backend = "lancedb"
  /\ LEnsureIndex(op)
  /\ UNCHANGED <<backend, conf, svars, hvars>>

LKeywordSearch == LKeywordSearchAs("keyword_search")

\* hybrid_search, called as op: emb is what embedder.get_embedding(query) returns.
LHybridSearchAs(op, emb) ==
  /\ backend = "lancedb"
  /\ IF emb = "absent"
     THEN /\ ret' = Ret(op, "ok", <<>>)
          /\ UNCHANGED <<lTable, fts_index_exists, ftsBuilds>>
     ELSE LEnsureIndex(op)
  /\ UNCHANGED <<backend, conf, svars, hvars>>

LHybridSearch(emb) == LHybridSearchAs("hybrid_search", emb)

RECURSIVE L_order_by(_, _)
\* connection.search(query=query_embedding, vector_column_name=...): the rows,
\* nearest first under the metric of the query. The code names no metric, so the
\* engine's default, L2, is the one that orders.
L_order_by(rows, query_embedding) ==
  IF rows = <<>> THEN <<>>
  ELSE LET i == CHOOSE i \in 1..Len(rows) :
                  \A j \in 1..Len(rows) :
                     \/ L2sq(rows[i].vector, query_embedding) < L2sq(rows[j].vector, query_embedding)
                     \/ /\ L2sq(rows[i].vector, query_embedding) = L2sq(rows[j].vector, query_embedding)
                        /\ i <= j
       IN <<rows[i]>> \o L_order_by(SubSeq(rows, 1, i - 1) \o SubSeq(rows, i + 1, Len(rows)),
                                   query_embedding)

\* vector_search(query, limit): what it returns or raises, and the queries it sent.
L_vector_search(query_embedding, limit) ==
  IF QueryEmbeddingIsNone(query_embedding) THEN [out |-> "ok", val |-> <<>>, n |-> 0]
  ELSE IF ~L_exists THEN [out |-> "raise", val |-> <<>>, n |-> 1]
  ELSE [out |-> "ok",
        val |-> L_build_search_results(Limit(L_order_by(lTable.rows, query_embedding), limit)).val,
        n |-> 1]

\* A vector search that marks the full-text index as built.
LVectorSearchMarks(op, query_embedding, limit) ==
  /\ backend = "lancedb"
  /\ LET r == L_vector_search(query_embedding, limit)
     IN ret' = RetQ(op, r.out, r.val, r.n)
  /\ fts_index_exists' = TRUE
  /\ UNCHANGED <<backend, conf, lTable, ftsBuilds, svars, hvars>>

\* vector_search, called as op.
LVectorSearchAs(op, query_embedding, limit) ==
  /\ backend = "lancedb"
  /\ LET r == L_vector_search(query_embedding, limit)
     IN ret' = RetQ(op, r.out, r.val, r.n)
  /\ UNCHANGED <<backend, conf, lvars, svars, hvars>>

LVectorSearch(query_embedding, limit) == LVectorSearchAs("vector_search", query_embedding, limit)

\* A dispatch that takes every other query type for "vector".
LQueryTypeOrVector(query_type) ==
  IF query_type \in {"hybrid", "fts"} THEN query_type ELSE "vector"
\* search: the branch self.query_type selects.
LQueryType(query_type) ==
  IF query_type \in {"vector", "hybrid", "fts"} THEN query_type ELSE "invalid"

\* search(query, limit)
LSearch(query_embedding, limit) ==
  /\ backend = "lancedb"
  /\ CASE LQueryType(conf.query_type) = "vector" ->
            LVectorSearchAs("search", query_embedding, limit)
       [] LQueryType(conf.query_type) = "hybrid" ->
            LHybridSearchAs("search", IF QueryEmbeddingIsNone(query_embedding)
                                      THEN "absent" ELSE "ok")
       [] LQueryType(conf.query_type) = "fts" -> LKeywordSearchAs("search")
       [] OTHER -> /\ ret' = Ret("search", "ok", <<>>)
                   /\ UNCHANGED <<backend, conf, lvars, svars, hvars>>

LNext ==
  \/ \E emb \in {"ok", "absent"} : LCreate(emb)
  \/ \E d \in QueryDocs : LDocExists(d)
  \/ \E ds \in DocLists, prep \in {"ok", "raise"} : LInsert(ds, prep)
  \/ \E ds \in DocLists, prep \in {"ok", "raise"} : LUpsert(ds, prep)
  \/ LDelete
  \/ LExists
  \/ LGetCount
  \/ LKeywordSearch
  \/ \E emb \in {"ok", "absent"} : LHybridSearch(emb)

\* -------------------------------------------------------------- singlestore
InsertDefaultBatch == 10
UpsertDefaultBatch == 20
InsertBatchSizes == {1, MaxBatch, InsertDefaultBatch}
UpsertBatchSizes == {1, MaxBatch, UpsertDefaultBatch}

\* get_table(): no column is a primary key or carries a unique index.
IdIsKey == FALSE

SNoTable == [exists |-> FALSE, rows |-> EmptyBag]
SNewTable == [exists |-> TRUE, rows |-> EmptyBag]

\* table_exists()
S_table_exists == sTable.exists

\* doc_exists: the content_hash it looks for.
S_doc_exists_hash(document) == Md5Hex(Encode(Replace(document.content)))

\* insert: content_hash
S_insert_hash(document) == Md5Hex(Encode(Replace(document.content)))

\* upsert: content_hash
S_upsert_hash(document) == Md5Hex(Encode(Replace(document.content)))

\* document.id or content_hash
IdOr(id, content_hash) == IF id = NoId \/ id = <<>> THEN content_hash ELSE id

\* insert: the values of the statement for one document.
SInsertRow(document) ==
  [id |-> IdOr(document.id, S_insert_hash(document)),
   content |-> Replace(document.content),
   embedding |-> Embedding(document.content),
   content_hash |-> S_insert_hash(document)]

\* upsert: the values of the statement for one document.
SUpsertRow(document) ==
  [id |-> IdOr(document.id, S_upsert_hash(document)),
   content |-> Replace(document.content),
   embedding |-> Embedding(document.content),
   content_hash |-> S_upsert_hash(document)]

\* The values of the statement op builds for one document.
SRowOf(op, document) == IF op = "insert" THEN SInsertRow(document) ELSE SUpsertRow(document)

\* A row of the same id is there and id is a key: the new row conflicts.
SConflict(rows, r) == IdIsKey /\ \E x \in BagToSet(rows) : x.id = r.id

\* INSERT ... VALUES (r), without a conflict.
SInsertStmt(rows, r) == rows (+) SetToBag({r})

\* INSERT ... ON CONFLICT (id) DO UPDATE SET every other column, taken to be
\* built and executed as it is written.
SUpsertStmt(rows, r) ==
  IF SConflict(rows, r)
  THEN SetToBag({IF x.id = r.id THEN r ELSE x : x \in BagToSet(rows)})
  ELSE rows (+) SetToBag({r})

\* A test that lets one document more gather before the commit.
SCommitDueAfter(counter, batch_size) == counter > batch_size
\* if counter >= batch_size
SCommitDue(counter, batch_size) == counter >= batch_size

\* A close that commits what is pending.
SCloseCommits(committed, work) == work
\* Leaving "with self.Session() as sess": close() drops what was not committed.
SClose(committed, work) == committed

\* An end of call that forgets the remainder.
SFinalNoCommit(counter, committed, work) == committed
\* if counter > 0: sess.commit()
SFinal(counter, committed, work) == IF counter > 0 THEN work ELSE committed

SNoSession ==
  [open |-> FALSE, op |-> None, docs |-> <<>>, done |-> 0, work |-> EmptyBag,
   counter |-> 0, batch_size |-> 0, commits |-> 0, before |-> EmptyBag,
   again |-> FALSE]

\* A session that stays open, with its work, when its block is left.
S_session_kept(s) == [s EXCEPT !.docs = SubSeq(s.docs, 1, s.done)]
\* with self.Session() as sess: leaving the block, by its end or by an
\* exception, closes the session.
S_session_exit(s) == SNoSession

\* insert(documents, batch_size) / upsert(documents, batch_size) is called.
SBegin(op, documents, batch_size) ==
  /\ backend = "singlestore"
  /\ ~sess.open
  /\ BagCardinality(sTable.rows) + Len(documents) <= MaxRows
  /\ sess' = [open |-> TRUE, op |-> op, docs |-> documents, done |-> 0,
              work |-> sTable.rows, counter |-> 0, batch_size |-> batch_size,
              commits |-> 0, before |-> sTable.rows,
              again |-> Again(op, documents)]
  /\ ret' = Ret(op, "running", None)
  /\ UNCHANGED <<backend, conf, lvars, sTable, hvars>>

SInsert(documents, batch_size) == SBegin("insert", documents, batch_size)
SUpsert(documents, batch_size) == SBegin("upsert", documents, batch_size)

\* One turn of the loop: the statement of the next document is executed, and the
\* batch is committed when it is full.
SLoop ==
  /\ sess.open
  /\ sess.done < Len(sess.docs)
  /\ S_table_exists
  /\ LET r == SRowOf(sess.op, sess.docs[sess.done + 1])
         work == IF sess.op = "insert" THEN SInsertStmt(sess.work, r)
                 ELSE SUpsertStmt(sess.work, r)
         due == SCommitDue(sess.counter + 1, sess.batch_size)
     IN /\ sess.op = "insert" => ~SConflict(sess.work, r)
        /\ sess' = [sess EXCEPT !.done = @ + 1, !.work = work,
                                !.counter = IF due THEN 0 ELSE @ + 1,
                                !.commits = IF due THEN @ + 1 ELSE @]
        /\ sTable' = IF due THEN [sTable EXCEPT !.rows = work] ELSE sTable
  /\ UNCHANGED <<backend, conf, lvars, ret, hvars>>

\* The turn of the next document raises (its embedding, its encoding or its
\* statement fails; the statement always does when the table is absent or, for
\* insert, when the row conflicts): the exception leaves the call.
SRaise ==
  /\ sess.open
  /\ sess.done < Len(sess.docs)
  /\ sTable' = [sTable EXCEPT !.rows = SClose(sTable.rows, sess.work)]
  /\ ret' = RetW(sess.op, "raise", sess.docs, sess.again, sess.done)
  /\ sess' = S_session_exit(sess)
  /\ UNCHANGED <<backend, conf, lvars, hvars>>

\* After the loop: the remainder is committed and the call returns.
SReturn ==
  /\ sess.open
  /\ sess.done = Len(sess.docs)
  /\ LET final == SFinal(sess.counter, sTable.rows, sess.work)
     IN /\ sTable' = [sTable EXCEPT !.rows = SClose(final, sess.work)]
        /\ ret' = RetW(sess.op, "ok", sess.docs, sess.again, sess.done)
  /\ sess' = S_session_exit(sess)
  /\ UNCHANGED <<backend, conf, lvars, hvars>>

\* create(): the table afterwards.
SCreateTable == IF S_table_exists THEN sTable ELSE SNewTable

SCreate ==
  /\ backend = "singlestore"
  /\ ~sess.open
  /\ sTable' = SCreateTable
  /\ ret' = Ret("create", "ok", None)
  /\ UNCHANGED <<backend, conf, lvars, sess, hvars>>

\* doc_exists(document), on an existing table.
S_doc_exists(document) ==
  \E x \in BagToSet(sTable.rows) : x.content_hash = S_doc_exists_hash(document)

\* id_exists(id), on an existing table.
S_id_exists(id) == \E x \in BagToSet(sTable.rows) : x.id = id

\* get_count(): select count(name) from the table, which raises without a table.
S_get_count_out == IF S_table_exists THEN "ok" ELSE "raise"
S_get_count == BagCardinality(sTable.rows)

SDocExists(document) ==
  /\ backend = "singlestore"
  /\ ~sess.open
  /\ ret' = IF S_table_exists THEN Ret("doc_exists", "ok", S_doc_exists(document))
            ELSE Ret("doc_exists", "raise", None)
  /\ UNCHANGED <<backend, conf, lvars, svars, hvars>>

SIdExists(id) ==
  /\ backend = "singlestore"
  /\ ~sess.open
  /\ ret' = IF S_table_exists THEN Ret("id_exists", "ok", S_id_exists(id))
            ELSE Ret("id_exists", "raise", None)
  /\ UNCHANGED <<backend, conf, lvars, svars, hvars>>

SDelete ==
  /\ backend = "singlestore"
  /\ ~sess.open
  /\ sTable' = SNoTable
  /\ ret' = Ret("delete", "ok", None)
  /\ UNCHANGED <<backend, conf, lvars, sess, hvars>>

SExists ==
  /\ backend = "singlestore"
  /\ ~sess.open
  /\ ret' = Ret("exists", "ok", S_table_exists)
  /\ UNCHANGED <<backend, conf, lvars, svars, hvars>>

SGetCount ==
  /\ backend = "singlestore"
  /\ ~sess.open
  /\ ret' = Ret("get_count", S_get_count_out,
                IF S_table_exists THEN S_get_count ELSE None)
  /\ UNCHANGED <<backend, conf, lvars, svars, hvars>>

\* name_exists(name): the documents of the model carry no name, so no row has one.
S_name_exists(name) == \E x \in BagToSet(sTable.rows) : FALSE

SNameExists(name) ==
  /\ backend = "singlestore"
  /\ ~sess.open
  /\ ret' = IF S_table_exists THEN Ret("name_exists", "ok", S_name_exists(name))
            ELSE Ret("name_exists", "raise", None)
  /\ UNCHANGED <<backend, conf, lvars, svars, hvars>>

\* get_table: the columns a row of the model has a value for.
Columns == {"id", "content", "content_hash"}
\* Attributes of self.table.c that are no columns: the methods of the collection.
CollectionAttrs == {"keys"}

\* A reading of hasattr that asks for a column.
IsColumn(key) == key \in Columns
\* hasattr(self.table.c, key)
HasAttr(key) == key \in Columns \cup CollectionAttrs

\* getattr(self.table.c, key) == value, as a condition on a row: a column gives
\* an equality of the statement; a method of the collection compares unequal to
\* the value, and where(False) selects no row.
FilterHolds(row, key, value) ==
  IF key \in Columns THEN row[key] = value ELSE FALSE

\* for key, value in filters.items(): if hasattr(...): stmt = stmt.where(...)
S_where(rows, filters) ==
  LET keep == {x \in BagToSet(rows) :
                  \A f \in filters : HasAttr(f.key) => FilterHolds(x, f.key, f.value)}
  IN [x \in keep |-> rows[x]]

RECURSIVE S_order_by(_, _)
\* order_by(dot_product(embedding, query_embedding).desc()): the rows as a list,
\* largest product first. Rows of the same product show the same content and
\* embedding among the documents of the model.
S_order_by(rows, query_embedding) ==
  IF rows = EmptyBag THEN <<>>
  ELSE LET x == CHOOSE x \in BagToSet(rows) :
                  \A y \in BagToSet(rows) :
                     Dot(x.embedding, query_embedding) >= Dot(y.embedding, query_embedding)
       IN <<x>> \o S_order_by(rows (-) SetToBag({x}), query_embedding)

\* [SNeighbor(r) : r in rows]
SNeighborsOf(rows) == [i \in 1..Len(rows) |-> SNeighbor(rows[i])]

\* search(query, limit, filters): what it returns or raises, and the sessions it
\* opened. Distance.l2 and Distance.max_inner_product ask the BLOB column for
\* max_inner_product, which it has not, before any session; self.index is read
\* inside the session.
S_search(query_embedding, limit, filters) ==
  IF QueryEmbeddingIsNone(query_embedding) THEN [out |-> "ok", val |-> <<>>, n |-> 0]
  ELSE IF conf.distance # "cosine" THEN [out |-> "raise", val |-> <<>>, n |-> 0]
  ELSE IF conf.index = "unset" \/ ~S_table_exists THEN [out |-> "raise", val |-> <<>>, n |-> 1]
  ELSE LET r == S_build_search_results(
                  SNeighborsOf(Limit(S_order_by(S_where(sTable.rows, filters),
                                                query_embedding), limit)))
       IN [out |-> r.out, val |-> r.val, n |-> 1]

SSearch(query_embedding, limit, filters) ==
  /\ backend = "singlestore"
  /\ ~sess.open
  /\ LET r == S_search(query_embedding, limit, filters)
     IN ret' = RetQ("search", r.out, r.val, r.n)
  /\ UNCHANGED <<backend, conf, lvars, svars, hvars>>

\* filters=None, or a dict without an item
NoFilters == {}
\* The names a caller may ask name_exists about.
Names == {<<"n">>}

\* The ids a caller may ask id_exists about.
RowIds == {K1} \cup {S_insert_hash(d) : d \in Docs}

SNext ==
  \/ \E ds \in DocLists, b \in InsertBatchSizes : SInsert(ds, b)
  \/ \E ds \in DocLists, b \in UpsertBatchSizes : SUpsert(ds, b)
  \/ SLoop
  \/ SRaise
  \/ SReturn
  \/ SCreate
  \/ \E d \in QueryDocs : SDocExists(d)
  \/ \E id \in RowIds : SIdExists(id)
  \/ \E name \in Names : SNameExists(name)
  \/ \E qe \in QueryEmbeddings : SSearch(qe, DefaultLimit, NoFilters)
  \/ SDelete
  \/ SExists
  \/ SGetCount

\* ------------------------------------------------------------ specification
NoDoc == [id |-> NoId, content |-> <<>>]

\* After construction: LanceDb.__init__ has created its table (overwrite mode);
\* singlestore.__init__ only describes the table, which is not created yet.
Init ==
  /\ backend \in {"lancedb", "singlestore"}
  /\ conf \in DefaultConfs(backend)
  /\ lTable = IF backend = "lancedb" THEN LNewTable ELSE LNoTable
  /\ fts_index_exists = FALSE
  /\ ftsBuilds = 0
  /\ sTable = SNoTable
  /\ sess = SNoSession
  /\ ret = Ret("__init__", "ok", None)
  /\ hin = <<NoDoc, NoDoc>>
  /\ hout = <<>>

Next == LNext \/ SNext

Spec == Init /\ [][Next]_vars

\* ------------------------------------- writes the provider cannot embed
\* Documents of which one has a content the provider returns no embedding for.
EmbDocs == {Document(NoId, FOX), Document(NoId, NOVEC)}
EmbDocLists == SeqsUpTo(EmbDocs, MaxDocs)

NextEmb ==
  \/ \E ds \in EmbDocLists, prep \in {"ok", "raise"} : LInsert(ds, prep)
  \/ \E ds \in EmbDocLists, prep \in {"ok", "raise"} : LUpsert(ds, prep)
  \/ \E d \in EmbDocs : LDocExists(d)
  \/ LDelete
  \/ \E emb \in {"ok", "absent"} : LCreate(emb)
  \/ LGetCount
  \/ \E ds \in EmbDocLists, b \in InsertBatchSizes : SInsert(ds, b)
  \/ \E ds \in EmbDocLists, b \in UpsertBatchSizes : SUpsert(ds, b)
  \/ SLoop
  \/ SRaise
  \/ SReturn
  \/ SCreate
  \/ \E d \in EmbDocs : SDocExists(d)
  \/ SDelete
  \/ SGetCount

SpecEmb == Init /\ [][NextEmb]_vars

\* ------------------------------------------- the content identifier alone
HashChars == {"x", NUL, FFFD}
HashDocs == [id : DocIds \cup {K2}, content : SeqsUpTo(HashChars, MaxLen)]

\* The identifier each method computes for a document.
ContentIds(document) ==
  [l_doc_exists |-> L_doc_exists_id(document),
   l_insert |-> LRecord(document).id,
   s_doc_exists |-> S_doc_exists_hash(document),
   s_insert |-> SInsertRow(document).content_hash,
   s_upsert |-> SUpsertRow(document).content_hash]

\* The id of the row each write method stores for a document.
WrittenIds(document) ==
  [l_insert |-> LData(<<document>>)[1].id,
   s_insert |-> SRowOf("insert", document).id,
   s_upsert |-> SRowOf("upsert", document).id]

InitHash ==
  /\ backend = "lancedb"
  /\ conf = Conf("cosine", "vector", "None")
  /\ lTable = LNewTable
  /\ fts_index_exists = FALSE
  /\ ftsBuilds = 0
  /\ sTable = SNoTable
  /\ sess = SNoSession
  /\ ret = Ret("__init__", "ok", None)
  /\ hin \in HashDocs \X HashDocs
  /\ hout = <<>>

\* One more round of calls computes the identifiers of both documents.
HashCall ==
  /\ Len(hout) < 2
  /\ hout' = Append(hout, <<ContentIds(hin[1]), ContentIds(hin[2]),
                            <<WrittenIds(hin[1]), WrittenIds(hin[2])>>>>)
  /\ UNCHANGED <<backend, conf, lvars, svars, ret, hin>>

NextHash == HashCall

SpecHash == InitHash /\ [][NextHash]_vars

\* ------------------------------------------- the decoding of query results
\* Rows a query may return: rows the adapter wrote, and rows whose JSON columns
\* another writer left malformed or empty.
LResultRows ==
  {LRecord(Document(NoId, FOX)), LRecord(Document(NoId, FOXNUL)),
   [LRecord(Document(NoId, FOX)) EXCEPT !.payload = Malformed(@.value)]}
SNeighbors ==
  {SNeighbor(SInsertRow(Document(NoId, FOX))), SNeighbor(SInsertRow(Document(NoId, FOXNUL))),
   [SNeighbor(SInsertRow(Document(NoId, FOX))) EXCEPT !.meta_data = Malformed(@.value)],
   [SNeighbor(SInsertRow(Document(NoId, FOX))) EXCEPT !.usage = SqlNull(@.value)]}

InitDecode ==
  /\ backend \in {"lancedb", "singlestore"}
  /\ conf = Conf("cosine", "vector", "None")
  /\ lTable = IF backend = "lancedb" THEN LNewTable ELSE LNoTable
  /\ fts_index_exists = FALSE
  /\ ftsBuilds = 0
  /\ sTable = SNoTable
  /\ sess = SNoSession
  /\ ret = Ret("__init__", "ok", None)
  /\ hin \in IF backend = "lancedb" THEN SeqsUpTo(LResultRows, MaxResults)
              ELSE SeqsUpTo(SNeighbors, MaxResults)
  /\ hout = <<>>

\* The rows are decoded.
DecodeCall ==
  /\ hout = <<>>
  /\ hout' = <<IF backend = "lancedb" THEN L_build_search_results(hin)
               ELSE S_build_search_results(hin)>>
  /\ UNCHANGED <<backend, conf, lvars, svars, ret, hin>>

NextDecode == DecodeCall

SpecDecode == InitDecode /\ [][NextDecode]_vars

\* ------------------------------------------------------------------ searches
\* Documents whose embeddings lie at three cosine distances from the query
\* <<1, 0>>: FOX <<3, 0>> nearest, FOXNUL <<4, 1>> next, "x" <<1, 1>> last.
SearchDocs == {Document(NoId, FOX), Document(NoId, FOXNUL), Document(NoId, <<"x">>)}

\* distance: Distance
Distances == {"cosine", "l2", "max_inner_product"}
\* query_type: Optional[str]
QueryTypes == {"vector", "hybrid", "fts", "semantic"}

\* The configurations a caller may construct an adapter with.
SearchConfs(b) ==
  IF b = "singlestore"
  THEN {Conf(d, "vector", ix) : d \in Distances, ix \in IndexAttrs}
  ELSE {Conf("cosine", qt, "None") : qt \in QueryTypes}

\* filters: Dict[str, Any], as its items; one item at most for a key.
FilterItems ==
  {[key |-> "content", value |-> FOX],
   [key |-> "nosuch", value |-> FOX],
   [key |-> "keys", value |-> FOX]}
Filters == SUBSET FilterItems

InitSearch ==
  /\ backend \in {"lancedb", "singlestore"}
  /\ conf \in SearchConfs(backend)
  /\ lTable = IF backend = "lancedb" THEN LNewTable ELSE LNoTable
  /\ fts_index_exists = FALSE
  /\ ftsBuilds = 0
  /\ sTable = SNoTable
  /\ sess = SNoSession
  /\ ret = Ret("__init__", "ok", None)
  /\ hin = <<NoDoc, NoDoc>>
  /\ hout = <<>>

NextSearch ==
  \/ \E d \in SearchDocs : LInsert(<<d>>, "ok")
  \/ LDelete
  \/ \E qe \in QueryEmbeddings, limit \in Limits : LSearch(qe, limit)
  \/ \E qe \in QueryEmbeddings, limit \in Limits : LVectorSearch(qe, limit)
  \/ \E emb \in {"ok", "absent"} : LHybridSearch(emb)
  \/ LKeywordSearch
  \/ SCreate
  \/ \E d \in SearchDocs : SInsert(<<d>>, 1)
  \/ SLoop
  \/ SRaise
  \/ SReturn
  \/ \E qe \in QueryEmbeddings, limit \in Limits, F \in Filters : SSearch(qe, limit, F)

SpecSearch == InitSearch /\ [][NextSearch]_vars

\* --------------------------------------------------------- reads and searches
\* Every operation that reads, among the writes that fill the tables.
NextRead ==
  \/ NextSearch
  \/ \E d \in SearchDocs : LDocExists(d)
  \/ LExists
  \/ LGetCount
  \/ \E emb \in {"ok", "absent"} : LCreate(emb)
  \/ \E d \in SearchDocs : SDocExists(d)
  \/ \E d \in SearchDocs : SIdExists(S_insert_hash(d))
  \/ \E name \in Names : SNameExists(name)
  \/ SExists
  \/ SGetCount
  \/ SDelete

SpecRead == InitSearch /\ [][NextRead]_vars

\* ------------------------------------------------- adapters constructed anew
InitLance == Init /\ backend = "lancedb"

NextLance ==
  \/ \E emb \in {"ok", "absent"} : LInit(emb)
  \/ LNext

SpecLance == InitLance /\ [][NextLance]_vars

\* ------------------------------------------------------- batches of writes
\* batch_size: int, which takes 0 as well as the sizes a caller means.
BatchSizes == {0, 1, MaxBatch, InsertDefaultBatch, UpsertDefaultBatch}

\* Lists long enough for a full batch and a remainder.
BatchDocs == {Document(NoId, FOX), Document(K1, FOXNUL)}
BatchDocLists == SeqsUpTo(BatchDocs, MaxDocs + 1)

InitBatch ==
  /\ backend = "singlestore"
  /\ conf \in DefaultConfs(backend)
  /\ lTable = LNoTable
  /\ fts_index_exists = FALSE
  /\ ftsBuilds = 0
  /\ sTable = SNoTable
  /\ sess = SNoSession
  /\ ret = Ret("__init__", "ok", None)
  /\ hin = <<NoDoc, NoDoc>>
  /\ hout = <<>>

NextBatch ==
  \/ SCreate
  \/ SDelete
  \/ \E ds \in BatchDocLists, b \in BatchSizes : SInsert(ds, b)
  \/ \E ds \in BatchDocLists, b \in BatchSizes : SUpsert(ds, b)
  \/ SLoop
  \/ SRaise
  \/ SReturn

SpecBatch == InitBatch /\ [][NextBatch]_vars

\* ------------------------------------------------------------------- claims
\* The spec's cleaning: every NUL character replaced by U+FFFD.
NulToFFFD(s) == [i \in DOMAIN s |-> IF s[i] = NUL THEN FFFD ELSE s[i]]

\* The digest tells apart the cleaned texts of the model.
AllContents == {FOX, FOXNUL, FOXFFFD, NOVEC} \cup SeqsUpTo(HashChars, MaxLen)
DigestIsInjective ==
  \A s, u \in {NulToFFFD(c) : c \in AllContents} \cup AllContents :
     Md5Hex(Encode(s)) = Md5Hex(Encode(u)) => s = u

\* The call that last returned did so on this backend, with this name.
Returned(b, op) == backend = b /\ ret.op = op /\ ret.out = "ok"

\* A row of the table holds the cleaned content of d.
LHoldsContent(d) ==
  \E i \in 1..Len(lTable.rows) : JsonLoads(lTable.rows[i].payload).content = NulToFFFD(d.content)
SHoldsContent(d) ==
  \E x \in BagToSet(sTable.rows) : x.content = NulToFFFD(d.content)

\* C1: on each backend, doc_exists(d) is false on a created table that holds no
\* row for d's cleaned content, and true once insert([.., d, ..]) has returned,
\* whether d carries an id or not.
C1_DocExistsAfterInsert ==
  /\ (backend = "lancedb" /\ L_exists) =>
        \A d \in QueryDocs : ~LHoldsContent(d) => ~L_doc_exists(d)
  /\ (backend = "singlestore" /\ S_table_exists /\ ~sess.open) =>
        \A d \in QueryDocs : ~SHoldsContent(d) => ~S_doc_exists(d)
  /\ Returned("lancedb", "insert") =>
        \A i \in 1..Len(ret.val) : L_doc_exists(ret.val[i])
  /\ Returned("singlestore", "insert") =>
        \A i \in 1..Len(ret.val) : S_doc_exists(ret.val[i])

\* insert([d]) has returned for a d with an id and a NUL in its content, and
\* doc_exists(d) is true.
C1_Witness ==
  /\ Returned("singlestore", "insert")
  /\ ret.val = <<[id |-> K1, content |-> FOXNUL]>>
  /\ S_doc_exists(ret.val[1])
  /\ ~S_doc_exists([id |-> K1, content |-> FOX])

\* C5: documents whose contents are equal after replacing every NUL by U+FFFD
\* get the same content identifier from insert, upsert and doc_exists, on both
\* backends and in every round of calls.
C5_SameCleanedSameId ==
  NulToFFFD(hin[1].content) = NulToFFFD(hin[2].content) =>
    \A i, j \in 1..Len(hout) :
      /\ hout[i][1] = hout[j][2]
      /\ hout[i][1].l_insert = hout[j][2].l_doc_exists
      /\ hout[i][1].s_insert = hout[j][2].s_doc_exists
      /\ hout[i][1].s_upsert = hout[j][2].s_doc_exists
      /\ hout[i][1].l_insert = hout[j][2].s_insert

\* Two documents that differ only in a NUL against a U+FFFD, and in their ids,
\* have had their identifiers computed twice.
C5_Witness ==
  /\ hin[1].content = <<"x", NUL>>
  /\ hin[2].content = <<"x", FFFD>>
  /\ hin[1].id # hin[2].id
  /\ Len(hout) = 2

\* C8: on each backend delete() leaves exists() false and get_count() returning 0,
\* and delete() and get_count() on an absent table return normally, get_count 0.
C8_AbsentTableIsNoError ==
  /\ backend = "lancedb" =>
        /\ ret.op = "delete" => ret.out = "ok" /\ ~L_exists /\ L_get_count = 0
        /\ ret.op = "get_count" => ret.out = "ok" /\ (~L_exists => ret.val = 0)
  /\ backend = "singlestore" =>
        /\ ret.op = "delete" =>
              ret.out = "ok" /\ ~S_table_exists /\ S_get_count_out = "ok" /\ S_get_count = 0
        /\ ret.op = "get_count" => ret.out = "ok" /\ (~S_table_exists => ret.val = 0)

\* The rows of the relational table whose id column is id.
SCopiesOfId(id) ==
  LET S == {x \in BagToSet(sTable.rows) : x.id = id}
      RECURSIVE Sum(_)
      Sum(T) == IF T = {} THEN 0
                ELSE LET x == CHOOSE y \in T : TRUE
                     IN CopiesIn(x, sTable.rows) + Sum(T \ {x})
  IN Sum(S)

\* The rows of the columnar table whose id column is id.
LCopiesOfId(id) == Cardinality({i \in 1..Len(lTable.rows) : lTable.rows[i].id = id})

\* A document's identifier: its id, or the hash of its cleaned content without one.
DocIdentifier(d) == IF d.id = NoId THEN Md5Hex(Encode(NulToFFFD(d.content))) ELSE d.id

\* A document's content identifier.
ContentIdentifier(d) == Md5Hex(Encode(NulToFFFD(d.content)))

\* C2: on the relational adapter, upsert([d]) followed by upsert([d]) leaves
\* exactly one row whose id is d's identifier.
C2_UpsertTwiceOneRow ==
  (Returned("singlestore", "upsert") /\ ret.again /\ Len(ret.val) = 1) =>
     SCopiesOfId(DocIdentifier(ret.val[1])) = 1

\* C3: on the columnar adapter upsert(documents) does what insert(documents)
\* does: it appends one row per document, with the document's content
\* identifier, so that get_count() grows by len(documents) on every call, and
\* upsert([d]); upsert([d]) on an empty created table leaves two rows with d's
\* content identifier.
C3_LanceUpsertAppends ==
  /\ [][(backend = "lancedb" /\ ret'.op = "upsert" /\ ret'.out = "ok") =>
          /\ L_get_count' = L_get_count + Len(ret'.val)
          /\ lTable'.exists
          /\ Len(lTable'.rows) = Len(lTable.rows) + Len(ret'.val)
          /\ \A i \in 1..Len(lTable.rows) : lTable'.rows[i] = lTable.rows[i]
          /\ \A i \in 1..Len(ret'.val) :
                lTable'.rows[Len(lTable.rows) + i].id = ContentIdentifier(ret'.val[i])]_vars
  /\ []((Returned("lancedb", "upsert") /\ ret.again /\ Len(ret.val) = 1) =>
          /\ LCopiesOfId(ContentIdentifier(ret.val[1])) >= 2
          /\ Len(lTable.rows) = 2 => LCopiesOfId(ContentIdentifier(ret.val[1])) = 2)

\* upsert([d]) has returned twice in a row on a table that was empty, and the
\* table holds two rows.
C3_Witness ==
  /\ Returned("lancedb", "upsert")
  /\ ret.again
  /\ Len(ret.val) = 1
  /\ Len(lTable.rows) = 2
  /\ L_get_count = 2

\* The row the relational adapter is to store for a document.
RowFor(d) ==
  [id |-> DocIdentifier(d), content |-> NulToFFFD(d.content),
   embedding |-> Embedding(d.content), content_hash |-> ContentIdentifier(d)]

RECURSIVE RowsFor(_, _)
\* The rows of the first k documents of a list.
RowsFor(documents, k) ==
  IF k = 0 THEN EmptyBag
  ELSE RowsFor(documents, k - 1) (+) SetToBag({RowFor(documents[k])})

\* The step in which a relational insert / upsert raises on its next document.
SRaises == backend = "singlestore" /\ sess.open /\ ret'.out = "raise"

\* C4 as claimed: when a relational insert / upsert raises on document N+1, the
\* rows of the first N documents are committed.
C4_FirstNCommitted ==
  [][SRaises => sTable'.rows = sess.before (+) RowsFor(sess.docs, sess.done)]_vars

\* C4, amended: when a relational insert / upsert with batch_size >= 1 raises on
\* document N+1, the rows committed are those of the first
\* batch_size * (N div batch_size) documents, the completed batches; what was
\* executed after the last commit is rolled back.
C4_CompletedBatchesCommitted ==
  [][SRaises =>
       sTable'.rows = sess.before (+)
          RowsFor(sess.docs, sess.batch_size * (sess.done \div sess.batch_size))]_vars

\* An insert raised on its second document and the first, executed but not
\* committed, is not in the table.
C4_Witness ==
  /\ backend = "singlestore"
  /\ ret.op = "insert"
  /\ ret.out = "raise"
  /\ ret.n = 1
  /\ S_table_exists
  /\ BagCardinality(sTable.rows) = 0

\* insert([d]) has returned on a table that holds d's row and no other.
InsertedAlone(b, content) ==
  /\ Returned(b, "insert")
  /\ Len(ret.val) = 1
  /\ ret.val[1].content = content
  /\ IF b = "lancedb" THEN Len(lTable.rows) = 1 ELSE BagCardinality(sTable.rows) = 1

DocOf(content) == [id |-> NoId, content |-> content]

\* C6 as claimed: after insert of "The quick brown fox" into an empty table,
\* doc_exists on "The\x00 quick brown fox" is true.
C6_NulAddedStillExists ==
  /\ InsertedAlone("lancedb", FOX) => L_doc_exists(DocOf(FOXNUL))
  /\ InsertedAlone("singlestore", FOX) => S_doc_exists(DocOf(FOXNUL))

\* C6, amended: after insert of "The quick brown fox" into an empty table,
\* doc_exists on "The\x00 quick brown fox" is false (the NUL is replaced by
\* U+FFFD, not removed) and doc_exists on "The quick brown fox" is true; after
\* insert of "The\x00 quick brown fox", doc_exists is true on that text and on
\* "The\ufffd quick brown fox", and false on "The quick brown fox".
C6_NulReplacedNotRemoved ==
  /\ InsertedAlone("lancedb", FOX) =>
        L_doc_exists(DocOf(FOX)) /\ ~L_doc_exists(DocOf(FOXNUL))
  /\ InsertedAlone("singlestore", FOX) =>
        S_doc_exists(DocOf(FOX)) /\ ~S_doc_exists(DocOf(FOXNUL))
  /\ InsertedAlone("lancedb", FOXNUL) =>
        /\ L_doc_exists(DocOf(FOXNUL))
        /\ L_doc_exists(DocOf(FOXFFFD))
        /\ ~L_doc_exists(DocOf(FOX))
  /\ InsertedAlone("singlestore", FOXNUL) =>
        /\ S_doc_exists(DocOf(FOXNUL))
        /\ S_doc_exists(DocOf(FOXFFFD))
        /\ ~S_doc_exists(DocOf(FOX))

\* "The quick brown fox" has been inserted alone into the columnar table.
C6_Witness == InsertedAlone("lancedb", FOX) /\ L_doc_exists(DocOf(FOX))

\* The identifiers of the documents of a list differ from one another.
DistinctIdentifiers(documents, Identifier(_)) ==
  \A i, j \in 1..Len(documents) :
     i # j => Identifier(documents[i]) # Identifier(documents[j])

\* What C7 says of a step: of a create() that creates the table, and of an
\* insert(documents) that returns on a table holding no row.
CountStep ==
  /\ (backend = "lancedb" /\ ret'.op = "create" /\ ret'.out = "ok" /\ ~L_exists) =>
        L_exists' /\ L_get_count' = 0
  /\ (backend = "singlestore" /\ ret'.op = "create" /\ ~S_table_exists) =>
        S_table_exists' /\ S_get_count_out' = "ok" /\ S_get_count' = 0
  /\ (backend = "lancedb" /\ ret'.op = "insert" /\ ret'.out = "ok"
      /\ L_exists /\ lTable.rows = <<>>
      /\ DistinctIdentifiers(ret'.val, ContentIdentifier)) =>
        L_get_count' = Len(ret'.val)
  /\ (backend = "singlestore" /\ ret'.op = "insert" /\ ret'.out = "ok" /\ sess.open
      /\ S_table_exists /\ sess.before = EmptyBag
      /\ DistinctIdentifiers(ret'.val, DocIdentifier)) =>
        S_get_count_out' = "ok" /\ S_get_count' = Len(ret'.val)

LexicalCallMade == backend = "lancedb" /\ ret.op \in {"keyword_search", "hybrid_search"}

\* C9 as claimed: once a keyword_search or hybrid_search call has been made, the
\* full-text index has been built, exactly once.
C9_BuiltOnFirstCall == LexicalCallMade => (fts_index_exists /\ ftsBuilds = 1)

\* C9, amended: the full-text index is built at most once, by the first
\* keyword_search, or hybrid_search with its query embedded, that is made while
\* the table exists; the index state never goes back from built to not built.
C9_BuiltAtMostOnce ==
  /\ [](ftsBuilds <= 1 /\ (fts_index_exists <=> ftsBuilds = 1))
  /\ [][fts_index_exists => fts_index_exists']_vars
  /\ [][((LKeywordSearch \/ LHybridSearch("ok")) /\ L_exists) =>
           (fts_index_exists' /\ ftsBuilds' = 1)]_vars

\* A keyword_search has returned that found the index an earlier call had built:
\* two lexical calls, one build.
C9_Witness ==
  /\ Returned("lancedb", "keyword_search")
  /\ ret.index = "found"
  /\ fts_index_exists
  /\ ftsBuilds = 1

\* C10: create() on an existing table changes nothing, and a create() that
\* follows a create() changes nothing.
C10_CreateIdempotent ==
  [][ret'.op = "create" =>
       /\ (backend = "lancedb" /\ L_exists) =>
             (lTable' = lTable /\ L_get_count' = L_get_count /\ ret'.out = "ok")
       /\ (backend = "singlestore" /\ S_table_exists) =>
             (sTable' = sTable /\ S_get_count' = S_get_count /\ ret'.out = "ok")
       /\ (ret.op = "create" /\ ret.out = "ok") => UNCHANGED <<lvars, svars>>]_vars

\* create() has returned on a columnar table that holds rows.
C10_Witness == Returned("lancedb", "create") /\ Len(lTable.rows) = 2

\* C11: no row without a vector is ever in the store: a write of a document the
\* Embedding Provider returned an absent result for adds and commits no row.
C11_NoRowWithoutVector ==
  /\ \A i \in 1..Len(lTable.rows) : lTable.rows[i].vector # NoVec
  /\ \A x \in BagToSet(sTable.rows) : x.embedding # NoVec

\* A row of the decoded results is malformed.
SomeRowMalformed ==
  \E i \in 1..Len(hin) :
     IF backend = "lancedb" THEN JsonLoadsRaises(hin[i].payload)
     ELSE S_neighbor_raises(hin[i])

\* C12: when a row a search got from the backend has malformed JSON, the search
\* returns an empty list: it neither raises nor returns the rows decoded before.
C12_DecodeAllOrNothing ==
  (hout # <<>> /\ SomeRowMalformed) => (hout[1].out = "ok" /\ hout[1].val = <<>>)

\* The rows of a columnar table whose id column is id.
LCopiesIn(rows, id) == Cardinality({i \in 1..Len(rows) : rows[i].id = id})

\* C13: insert([d]) when a row with d's identifier is in the table fails on the
\* relational backend and stores no second row with that identifier; on the
\* columnar backend it returns and adds one more row with that identifier.
C13_DuplicateInsert ==
  [][/\ (backend = "singlestore" /\ sess.open /\ sess.op = "insert"
          /\ Len(sess.docs) = 1 /\ ~sess'.open
          /\ \E x \in BagToSet(sess.before) : x.id = DocIdentifier(sess.docs[1])) =>
            (ret'.out = "raise" /\ sTable'.rows = sess.before)
     /\ (backend = "lancedb" /\ ret'.op = "insert" /\ ret'.out = "ok"
          /\ Len(ret'.val) = 1 /\ LCopiesOfId(ContentIdentifier(ret'.val[1])) >= 1) =>
            LCopiesIn(lTable'.rows, ContentIdentifier(ret'.val[1])) =
               LCopiesIn(lTable.rows, ContentIdentifier(ret'.val[1])) + 1]_vars

\* The rows of a relational table whose id column is id.
SRowsOfId(rows, id) == {x \in BagToSet(rows) : x.id = id}

\* C14: on the relational adapter, upsert([d]) on a table that holds one row with
\* d's identifier returns and leaves the table as it was but for that row, which
\* now holds d's values: the row count is unchanged, doc_exists(d) is true, and
\* the old content is gone with the old row.
C14_UpsertReplacesRow ==
  [][(backend = "singlestore" /\ sess.open /\ sess.op = "upsert" /\ ret'.out = "ok"
      /\ Len(sess.docs) = 1 /\ S_table_exists
      /\ Cardinality(SRowsOfId(sess.before, DocIdentifier(sess.docs[1]))) = 1) =>
        LET old == CHOOSE x \in SRowsOfId(sess.before, DocIdentifier(sess.docs[1])) : TRUE
        IN CopiesIn(old, sess.before) = 1 =>
             /\ sTable'.rows = (sess.before (-) SetToBag({old})) (+) SetToBag({RowFor(sess.docs[1])})
             /\ BagCardinality(sTable'.rows) = BagCardinality(sess.before)
             /\ \E x \in BagToSet(sTable'.rows) :
                   x.content_hash = ContentIdentifier(sess.docs[1])]_vars

\* C15: on both backends the row insert / upsert writes for d has d.id as its
\* identifier when d has one, and the hash of d's cleaned content only when it
\* has none; documents of equal content and different explicit ids get rows of
\* different identifiers.
C15_RowIdIsDocId ==
  \A i \in 1..Len(hout) :
     LET w == hout[i][3]
     IN /\ \A k \in 1..2 :
              /\ w[k].l_insert = DocIdentifier(hin[k])
              /\ w[k].s_insert = DocIdentifier(hin[k])
              /\ w[k].s_upsert = DocIdentifier(hin[k])
        /\ (hin[1].id # NoId /\ hin[2].id # NoId /\ hin[1].id # hin[2].id
            /\ hin[1].content = hin[2].content) =>
              /\ w[1].l_insert # w[2].l_insert
              /\ w[1].s_insert # w[2].s_insert
              /\ w[1].s_upsert # w[2].s_upsert

\* A step of the relational adapter after which no public operation is running.
SOperationLeft == backend = "singlestore" /\ ret'.out # "running"

\* What C16 asks of a step.
C16_Step ==
  /\ SOperationLeft => ~sess'.open /\ sess' = SNoSession
  /\ (SOperationLeft /\ sess.open /\ ret'.out = "raise") => sTable'.rows = sTable.rows
  /\ (backend = "singlestore" /\ ~sess.open /\ sess'.open) =>
        sess'.work = sTable.rows /\ sess'.counter = 0

\* C16: in the relational adapter every public operation releases its session
\* on exit, whether it returns or raises: when no operation is running no session
\* is open, a call that raises leaves the committed rows as they were, and the
\* session of the next call starts from the committed rows alone.
C16_SessionsReleased == [][C16_Step]_vars

\* An upsert of two documents raised after it had executed one of them without
\* committing: the session is gone and the table holds the one row it held.
C16_Witness ==
  /\ backend = "singlestore"
  /\ ret.op = "upsert"
  /\ ret.out = "raise"
  /\ ret.n = 1
  /\ Len(ret.val) = 2
  /\ sess = SNoSession
  /\ BagCardinality(sTable.rows) = 1

\* The step ends a call that answers with a list of documents.
ListAnswered ==
  /\ ret'.op \in {"search", "vector_search", "hybrid_search"}
  /\ ret'.index = None

\* The call of the step returned the empty list and sent nothing to a backend.
EmptyWithoutQuery ==
  /\ ret'.out = "ok"
  /\ ret'.val = <<>>
  /\ ret'.n = 0
  /\ UNCHANGED <<lTable, fts_index_exists, ftsBuilds, sTable, sess>>

\* What C17 asks of a step.
C17_Step ==
  /\ \A limit \in Limits, F \in Filters :
        (ListAnswered /\ SSearch(NoVec, limit, F)) => EmptyWithoutQuery
  /\ \A limit \in Limits :
        (ListAnswered /\ LVectorSearch(NoVec, limit)) => EmptyWithoutQuery
  /\ \A limit \in Limits :
        (/\ ListAnswered
         /\ conf.query_type \in {"vector", "hybrid"}
         /\ LSearch(NoVec, limit)) => EmptyWithoutQuery
  /\ (ListAnswered /\ LHybridSearch("absent")) => EmptyWithoutQuery

\* C17: when the embedder returns no embedding for the query, search returns the
\* empty list without raising, on both backends and in the vector and the hybrid
\* mode, and sends no query to the backend.
C17_AbsentQueryEmbedding == [][C17_Step]_vars

\* A relational search came back empty without a session although the table
\* holds rows.
C17_Witness ==
  /\ backend = "singlestore"
  /\ ret.op = "search"
  /\ ret.out = "ok"
  /\ ret.n = 0
  /\ S_table_exists
  /\ BagCardinality(sTable.rows) >= 1

\* What C18 asks of a step.
C18_Step ==
  (/\ backend = "lancedb"
   /\ conf.query_type \notin {"vector", "hybrid", "fts"}
   /\ ListAnswered
   /\ \E qe \in QueryEmbeddings, limit \in Limits : LSearch(qe, limit)) =>
     /\ EmptyWithoutQuery
     /\ \A qe \in QueryEmbeddings, limit \in Limits : LSearch(qe, limit)

\* C18: LanceDb.search with a query_type other than "vector", "hybrid" and "fts"
\* returns the empty list without raising and without a side effect: the outcome
\* depends on no embedding, no query reaches the table, and the full-text index
\* is neither built nor marked.
C18_InvalidQueryType == [][C18_Step]_vars

\* search returned on a table with rows under a query type it does not know.
C18_Witness ==
  /\ backend = "lancedb"
  /\ conf.query_type = "semantic"
  /\ ret.op = "search"
  /\ ret.out = "ok"
  /\ L_exists
  /\ Len(lTable.rows) >= 1
  /\ ~fts_index_exists

\* The items of F whose key names a column of the table.
ColumnItems(F) == {f \in F : IsColumn(f.key)}

\* Every document of a result that was asked for with F agrees with each item of
\* F that names a column the result shows.
ResultMeets(val, F) ==
  \A i \in 1..Len(val) : \A f \in F : f.key = "content" => val[i].content = f.value

\* What C19 asks of a step.
C19_Step ==
  \A qe \in QueryEmbeddings, limit \in Limits, F \in Filters :
     (ListAnswered /\ SSearch(qe, limit, F)) =>
        /\ SSearch(qe, limit, ColumnItems(F))
        /\ ret'.out = "ok" => ResultMeets(ret'.val, F)

\* C19: in the relational search a filter key that names a column restricts the
\* result to the rows whose column equals the value, and a key that names no
\* column is ignored without error: the search with filters F is the search with
\* the items of F whose keys are columns.
C19_FiltersIgnoreNonColumns == [][C19_Step]_vars

\* The cosine distance of a from q is strictly smaller than that of b, for
\* vectors that are not zero and make no obtuse angle with q: the cosines
\* compare as their squares, Dot(a, q)^2 / Dot(a, a) and Dot(b, q)^2 / Dot(b, b).
CosineNearer(a, b, q) ==
  Dot(a, q) * Dot(a, q) * Dot(b, b) > Dot(b, q) * Dot(b, q) * Dot(a, a)

\* No document of the list is strictly nearer to q than one listed before it.
NearestFirst(val, q) ==
  \A i, j \in 1..Len(val) :
     i < j => ~CosineNearer(val[j].embedding, val[i].embedding, q)

\* The step is the vector search for q with this limit, on either backend.
VectorSearched(q, limit) ==
  /\ ListAnswered
  /\ \/ SSearch(q, limit, NoFilters)
     \/ LVectorSearch(q, limit)
     \/ conf.query_type = "vector" /\ LSearch(q, limit)

\* What C20 asks of a step.
C20_Step ==
  \A q \in QueryEmbeddings \ {NoVec}, limit \in Limits :
     (VectorSearched(q, limit) /\ conf.distance = "cosine" /\ ret'.out = "ok") =>
        /\ Len(ret'.val) <= limit
        /\ NearestFirst(ret'.val, q)

\* C20: a vector search returns at most limit documents, nearest first under
\* the configured distance: with the cosine distance, documents at strictly
\* increasing cosine distances from the query come in that order, on both
\* backends.
C20_NearestFirst == [][C20_Step]_vars

\* c is the least number of batches of b documents that hold M documents.
IsCeil(c, M, b) == c * b >= M /\ (c = 0 \/ (c - 1) * b < M)

\* The step executes the statement of one more document of the running call.
SExecutes == backend = "singlestore" /\ sess.open /\ sess'.open /\ sess'.done = sess.done + 1

\* The step is the return of the running insert / upsert.
SReturns == backend = "singlestore" /\ sess.open /\ ~sess'.open /\ ret'.out = "ok"

\* The commits of the call that returns in this step: those of its loop and the
\* one at its end, which shows in the rows it adds to the committed ones.
CommitsAtReturn == sess.commits + (IF sTable'.rows # sTable.rows THEN 1 ELSE 0)

\* What C21 asks of a step of a call whose batch_size is b.
BatchStep ==
  /\ SExecutes =>
        /\ sess.counter + 1 <= sess.batch_size
        /\ (sess'.commits = sess.commits + 1) <=> (sess.counter + 1 = sess.batch_size)
        /\ sess'.commits \in {sess.commits, sess.commits + 1}
        /\ sess'.commits = sess.commits + 1 => sTable'.rows = sess'.work
        /\ sess'.commits = sess.commits => sTable'.rows = sTable.rows
  /\ SReturns =>
        /\ IsCeil(CommitsAtReturn, Len(sess.docs), sess.batch_size)
        /\ sTable'.rows = sess.before (+) RowsFor(sess.docs, Len(sess.docs))

\* C21 as claimed: in the relational insert and upsert a commit is issued
\* exactly when the executed and uncommitted documents reach batch_size, and once
\* more at the end if any remain; at most batch_size documents are uncommitted
\* at any point, a call over M documents that returns has issued
\* ceil(M / batch_size) commits, and all its M rows are committed.
C21_CommitEveryBatch == [][BatchStep]_vars

\* C21, amended: the same for a batch_size of 1 or more. (With a batch_size
\* below 1 every document is committed by itself.)
C21_CommitEveryPositiveBatch == [][sess.batch_size >= 1 => BatchStep]_vars

\* A call with batch_size 2 has executed three documents: two were committed
\* as a batch and the third waits for the commit at the end.
C21_Witness ==
  /\ backend = "singlestore"
  /\ sess.open
  /\ sess.batch_size = MaxBatch
  /\ sess.done = MaxBatch + 1
  /\ Len(sess.docs) = sess.done
  /\ sess.commits = 1
  /\ sess.counter = 1
  /\ BagCardinality(sTable.rows) = MaxBatch

\* C22: constructing a LanceDb adapter without a connection creates the table
\* table_name in overwrite mode: right after the construction exists() is true
\* and get_count() is 0, also when the table held rows an earlier instance wrote.
C22_ConstructorOverwrites ==
  [][(backend = "lancedb" /\ ret'.op = "__init__" /\ ret'.out = "ok") =>
       /\ L_exists'
       /\ L_get_count' = 0
       /\ lTable'.rows = <<>>]_vars

\* An adapter was constructed on a table that held two rows, and the table is
\* there and empty.
C22_Witness ==
  /\ backend = "lancedb"
  /\ ret.op = "__init__"
  /\ ret.out = "ok"
  /\ ret.n = 2
  /\ L_exists
  /\ L_get_count = 0

\* C23: in every state LanceDb operations reach, if fts_index_exists is set
\* then the table the adapter holds has a full-text index built on it, also
\* after a lexical search followed by delete() and create(). (Read for the
\* states in which the table exists.)
C23_FlagMeansIndex ==
  (backend = "lancedb" /\ fts_index_exists /\ L_exists) => lTable.fts

\* The rows from position k + 1 on are those of the documents, in their order.
LAppended(rows, k, documents) ==
  /\ Len(rows) = k + Len(documents)
  /\ \A i \in 1..Len(documents) :
        /\ rows[k + i].id = ContentIdentifier(documents[i])
        /\ JsonLoads(rows[k + i].payload).content = NulToFFFD(documents[i].content)

\* What C24 asks of a step.
C24_Step ==
  (backend = "lancedb" /\ ret'.op \in {"insert", "upsert"} /\ L_exists) =>
     IF ret'.out = "raise"
     THEN lTable' = lTable /\ L_get_count' = L_get_count
     ELSE /\ SubSeq(lTable'.rows, 1, Len(lTable.rows)) = lTable.rows
          /\ LAppended(lTable'.rows, Len(lTable.rows), ret'.val)

\* C24: LanceDb.insert gathers its records in input order and hands them to the
\* table in one add after the loop: when embedding or encoding a document
\* raises, no row of the call is added and get_count() is what it was.
C24_InsertAllOrNothing == [][C24_Step]_vars

\* An insert of two documents raised on a table of one row, which still holds
\* that row alone.
C24_Witness ==
  /\ backend = "lancedb"
  /\ ret.op = "insert"
  /\ ret.out = "raise"
  /\ Len(ret.val) = 2
  /\ L_exists
  /\ L_get_count = 1

\* The step ends an operation that only reads: an existence or count query, or
\* a search in vector mode.
ReadEnded ==
  \/ ret'.op \in {"doc_exists", "exists", "get_count", "name_exists", "id_exists",
                  "vector_search"}
  \/ ret'.op = "search" /\ (backend = "singlestore" \/ conf.query_type = "vector")

\* The step ends a keyword or hybrid search.
LexicalEnded ==
  \/ ret'.op \in {"keyword_search", "hybrid_search"}
  \/ ret'.op = "search" /\ backend = "lancedb" /\ conf.query_type \in {"hybrid", "fts"}

\* What C25 asks of a step.
C25_Step ==
  /\ ReadEnded => UNCHANGED <<lTable, fts_index_exists, sTable, sess>>
  /\ LexicalEnded =>
        /\ lTable'.rows = lTable.rows
        /\ lTable'.exists = lTable.exists
        /\ UNCHANGED <<sTable, sess>>

\* C25: read operations leave the store as it is: on both backends doc_exists,
\* exists and get_count (and name_exists, id_exists on singlestore) and the
\* search in vector mode change neither the stored rows nor the existence of the
\* table nor fts_index_exists; keyword and hybrid search change the index state
\* alone, never the rows.
C25_ReadsChangeNothing == [][C25_Step]_vars

\* A vector search returned two documents from a table that holds two rows and
\* has no full-text index.
C25_Witness ==
  /\ backend = "lancedb"
  /\ ret.op = "vector_search"
  /\ ret.out = "ok"
  /\ ret.n = 1
  /\ Len(ret.val) = 2
  /\ Len(lTable.rows) = 2
  /\ ~fts_index_exists
  /\ ~lTable.fts

====
